---- MODULE Spec2Model ----
(***************************************************************************)
(* A model of the SQL processing engine of sqlfilesbank                    *)
(* (src/sql_processor_tools.py): the statement segmenter and classifier    *)
(* of parse_sql_statements, the compliance checker                         *)
(* validate_snowflake_syntax and the annotator apply_banking_nomenclature. *)
(*                                                                         *)
(* Text is modelled character by character: a Python str is a sequence of  *)
(* one-character strings, and every str method the code calls (split,      *)
(* strip, find, startswith, upper, in) is an operator computing what the   *)
(* method computes.                                                        *)
(***************************************************************************)
EXTENDS Integers, Sequences, FiniteSets, TLC

(***************************************************************************)
(* Python str primitives                                                   *)
(***************************************************************************)

\* The characters str.strip() removes (of those that occur in the model).
IsSpace(c) == c \in {" ", "\n", "\t"}

\* sub in s, as a position test: sub occurs in s at the 1-based position p.
OccursAt(sub, s, p) ==
  /\ p >= 1
  /\ p + Len(sub) - 1 <= Len(s)
  /\ \A j \in 1..Len(sub) : s[p + j - 1] = sub[j]

\* Python: sub in s
Contains(sub, s) == \E p \in 1..(Len(s) - Len(sub) + 1) : OccursAt(sub, s, p)

\* Python: s.find(sub), 0-based index of the first occurrence, -1 if none.
Find(sub, s) ==
  IF Contains(sub, s)
  THEN (CHOOSE p \in 1..(Len(s) - Len(sub) + 1) :
          /\ OccursAt(sub, s, p)
          /\ \A q \in 1..(p - 1) : ~OccursAt(sub, s, q)) - 1
  ELSE -1

\* Python: s.startswith(pre)
StartsWith(s, pre) == OccursAt(pre, s, 1)

\* Python: s.strip()
Strip(s) ==
  LET keep == {p \in 1..Len(s) : ~IsSpace(s[p])}
  IN  IF keep = {} THEN <<>>
      ELSE LET lo == CHOOSE p \in keep : \A q \in keep : p <= q
               hi == CHOOSE p \in keep : \A q \in keep : q <= p
           IN  SubSeq(s, lo, hi)

\* Python: s.split('\n'), the list of the pieces between the newlines.
RECURSIVE Split(_)
Split(s) ==
  LET nl == Find(<<"\n">>, s)
  IN  IF nl = -1 THEN <<s>>
      ELSE <<SubSeq(s, 1, nl)>> \o Split(SubSeq(s, nl + 2, Len(s)))

\* Python: '\n'.join(parts)
RECURSIVE Join(_)
Join(parts) ==
  IF parts = <<>> THEN <<>>
  ELSE IF Len(parts) = 1 THEN parts[1]
  ELSE parts[1] \o <<"\n">> \o Join(Tail(parts))

LowerLetters ==
  <<"a","b","c","d","e","f","g","h","i","j","k","l","m",
    "n","o","p","q","r","s","t","u","v","w","x","y","z">>

UpperLetters ==
  <<"A","B","C","D","E","F","G","H","I","J","K","L","M",
    "N","O","P","Q","R","S","T","U","V","W","X","Y","Z">>

UpperOf ==
  [c \in {LowerLetters[n] : n \in 1..Len(LowerLetters)} |->
     UpperLetters[CHOOSE n \in 1..Len(LowerLetters) : LowerLetters[n] = c]]

LowerOf ==
  [c \in {UpperLetters[n] : n \in 1..Len(UpperLetters)} |->
     LowerLetters[CHOOSE n \in 1..Len(UpperLetters) : UpperLetters[n] = c]]

UpperChar(c) == IF c \in DOMAIN UpperOf THEN UpperOf[c] ELSE c

LowerChar(c) == IF c \in DOMAIN LowerOf THEN LowerOf[c] ELSE c

\* Python: s.upper()
Upper(s) == [p \in 1..Len(s) |-> UpperChar(s[p])]

\* Python: s.lower()
Lower(s) == [p \in 1..Len(s) |-> LowerChar(s[p])]

(***************************************************************************)
(* The tokens and keywords of parse_sql_statements                         *)
(***************************************************************************)

BlockOpen == <<"/", "*">>
BlockClose == <<"*", "/">>
LineComment == <<"-", "-">>
Semicolon == <<";">>

CREATE == <<"C","R","E","A","T","E">>
ALTER == <<"A","L","T","E","R">>
DROP == <<"D","R","O","P">>
TRUNCATE == <<"T","R","U","N","C","A","T","E">>
RENAME == <<"R","E","N","A","M","E">>
GRANT == <<"G","R","A","N","T">>
REVOKE == <<"R","E","V","O","K","E">>
COMMENT == <<"C","O","M","M","E","N","T">>
INDEX == <<"I","N","D","E","X">>
VIEW == <<"V","I","E","W">>
PROCEDURE == <<"P","R","O","C","E","D","U","R","E">>
FUNCTION == <<"F","U","N","C","T","I","O","N">>
TRIGGER == <<"T","R","I","G","G","E","R">>
SCHEMA == <<"S","C","H","E","M","A">>
DATABASE == <<"D","A","T","A","B","A","S","E">>
USE_DATABASE == <<"U","S","E"," ">> \o DATABASE
USE_SCHEMA == <<"U","S","E"," ">> \o SCHEMA

INSERT == <<"I","N","S","E","R","T">>
UPDATE == <<"U","P","D","A","T","E">>
DELETE == <<"D","E","L","E","T","E">>
MERGE == <<"M","E","R","G","E">>
UPSERT == <<"U","P","S","E","R","T">>
SELECT == <<"S","E","L","E","C","T">>
CALL == <<"C","A","L","L">>
EXEC == <<"E","X","E","C">>
EXECUTE == <<"E","X","E","C","U","T","E">>

ddl_keywords ==
  {CREATE, ALTER, DROP, TRUNCATE, RENAME, GRANT, REVOKE, COMMENT, INDEX, VIEW,
   PROCEDURE, FUNCTION, TRIGGER, SCHEMA, DATABASE, USE_DATABASE, USE_SCHEMA}

dml_keywords ==
  {INSERT, UPDATE, DELETE, MERGE, UPSERT, SELECT, CALL, EXEC, EXECUTE}

\* The keywords of the two standalone-word tests.
ddl_words == {CREATE, ALTER, DROP, GRANT, REVOKE}

dml_words == {INSERT, UPDATE, DELETE, MERGE}

(***************************************************************************)
(* parse_sql_statements: the segmentation pass                             *)
(***************************************************************************)

\* in_block_comment after the two tests at the head of the loop body.
BlockFlagAfter(line, flag) ==
  IF Contains(BlockClose, line) THEN FALSE
  ELSE IF Contains(BlockOpen, line) THEN TRUE
  ELSE flag

\* The line is appended and the loop continues without looking for ';'.
SkipsTerminatorCheck(line, flag) ==
  Contains(BlockClose, line) \/ BlockFlagAfter(line, flag)

\* Mutant of Appended: the line is appended without its surrounding blanks.
Appended_Stripped(current, line) == current \o Strip(line) \o <<"\n">>

\* current_statement += line + '\n'
Appended(current, line) == current \o line \o <<"\n">>

\* Mutant of EndsStatement: any ';' ends the statement, commented or not.
EndsStatement_IgnoringComments(line) == Contains(Semicolon, line)

\* The test that ends a statement at a line.
EndsStatement(line) ==
  /\ Contains(Semicolon, line)
  /\ ~StartsWith(Strip(line), LineComment)
  /\ LET semicolon_pos == Find(Semicolon, line)
         comment_pos == Find(LineComment, line)
     IN  comment_pos = -1 \/ semicolon_pos < comment_pos

\* The line flushes the accumulator.
FlushesAt(line, flag) == ~SkipsTerminatorCheck(line, flag) /\ EndsStatement(line)

(***************************************************************************)
(* parse_sql_statements: the classification pass                           *)
(***************************************************************************)

\* The guard of the first `continue` of the classification loop.
IsSkippedComment(stmt) ==
  \/ stmt = <<>>
  \/ /\ StartsWith(Strip(stmt), LineComment)
     /\ ~Contains(CREATE, Upper(stmt))
     /\ ~Contains(INSERT, Upper(stmt))

\* sql_line: the first stripped line that is not empty and starts with
\* neither '--' nor '/*'; the empty string if there is none.
RECURSIVE FirstSqlLine(_)
FirstSqlLine(stmt_lines) ==
  IF stmt_lines = <<>> THEN <<>>
  ELSE LET stripped == Strip(Head(stmt_lines))
       IN  IF /\ stripped # <<>>
              /\ ~StartsWith(stripped, LineComment)
              /\ ~StartsWith(stripped, BlockOpen)
           THEN stripped
           ELSE FirstSqlLine(Tail(stmt_lines))

sql_line(stmt) == FirstSqlLine(Split(stmt))

\* f' {kw} ' in f' {stmt_upper} '
HasWord(kw, stmt_upper) ==
  Contains(<<" ">> \o kw \o <<" ">>, <<" ">> \o stmt_upper \o <<" ">>)

is_ddl(stmt_upper) ==
  \/ \E kw \in ddl_keywords : StartsWith(stmt_upper, kw)
  \/ \E kw \in ddl_words : HasWord(kw, stmt_upper)

is_dml(stmt_upper) ==
  \/ \E kw \in dml_keywords : StartsWith(stmt_upper, kw)
  \/ \E kw \in dml_words : HasWord(kw, stmt_upper)

\* Mutant of Route: the DML test is an `if`, not an `elif`.
Route_BothLists(stmt) ==
  IF IsSkippedComment(stmt) THEN {}
  ELSE IF sql_line(stmt) = <<>> THEN {}
  ELSE LET stmt_upper == Upper(sql_line(stmt))
       IN  (IF is_ddl(stmt_upper) THEN {"ddl"} ELSE {})
             \cup (IF is_dml(stmt_upper) THEN {"dml"} ELSE {})

\* The lists one statement is appended to by one iteration of the loop.
Route(stmt) ==
  IF IsSkippedComment(stmt) THEN {}
  ELSE IF sql_line(stmt) = <<>> THEN {}
  ELSE LET stmt_upper == Upper(sql_line(stmt))
       IN  IF is_ddl(stmt_upper) THEN {"ddl"}
           ELSE IF is_dml(stmt_upper) THEN {"dml"}
           ELSE {}

\* Mutant of SegmentStep: a flushing line is cut at its first ';', and what
\* follows the ';' on the line opens the next statement.
SegmentStep_CutAtSemicolon(st, line) ==
  IF FlushesAt(line, st.in_block_comment)
  THEN [current_statement |->
          SubSeq(line, Find(Semicolon, line) + 2, Len(line)) \o <<"\n">>,
        in_block_comment |-> BlockFlagAfter(line, st.in_block_comment),
        statements |->
          Append(st.statements,
                 Strip(st.current_statement \o SubSeq(line, 1, Find(Semicolon, line) + 1)))]
  ELSE [current_statement |-> Appended(st.current_statement, line),
        in_block_comment |-> BlockFlagAfter(line, st.in_block_comment),
        statements |-> st.statements]

\* One iteration of the segmentation loop, on the loop's variables.
SegmentStep(st, line) ==
  IF FlushesAt(line, st.in_block_comment)
  THEN [current_statement |-> <<>>,
        in_block_comment |-> BlockFlagAfter(line, st.in_block_comment),
        statements |-> Append(st.statements, Strip(Appended(st.current_statement, line)))]
  ELSE [current_statement |-> Appended(st.current_statement, line),
        in_block_comment |-> BlockFlagAfter(line, st.in_block_comment),
        statements |-> st.statements]

\* `if current_statement.strip(): statements.append(current_statement.strip())`
WithRemaining_Dropped(stmts, current) == stmts

WithRemaining(stmts, current) ==
  IF Strip(current) # <<>> THEN Append(stmts, Strip(current)) ELSE stmts

\* The segmentation pass as a whole.
RECURSIVE SegmentFrom(_, _, _)
SegmentFrom(ls, n, st) ==
  IF n > Len(ls) THEN WithRemaining(st.statements, st.current_statement)
  ELSE SegmentFrom(ls, n + 1, SegmentStep(st, ls[n]))

SegmentAll(text) ==
  SegmentFrom(Split(text), 1,
              [current_statement |-> <<>>, in_block_comment |-> FALSE, statements |-> <<>>])

\* The classification pass as a whole: the statements routed to one list.
RoutedTo(list, stmts) ==
  LET Goes(stmt) == list \in Route(stmt)
  IN  SelectSeq(stmts, Goes)

\* parse_sql_statements(sql_content)
parse_sql_statements(text) ==
  [ddl |-> RoutedTo("ddl", SegmentAll(text)), dml |-> RoutedTo("dml", SegmentAll(text))]

(***************************************************************************)
(* validate_snowflake_syntax: the regular expressions                      *)
(*                                                                         *)
(* A pattern is a set of alternatives; an alternative is a sequence of     *)
(* elements: a literal, \b, \s+, \s* or [^)]*.  An optional group is       *)
(* written as the alternatives with and without it.                        *)
(***************************************************************************)

Lit(s) == [t |-> "lit", s |-> s]
WordBoundary == [t |-> "\\b", s |-> <<>>]
Spaces1 == [t |-> "\\s+", s |-> <<>>]
Spaces0 == [t |-> "\\s*", s |-> <<>>]
NotParen0 == [t |-> "[^)]*", s |-> <<>>]

\* \w
WordChars ==
  DOMAIN UpperOf \cup DOMAIN LowerOf
    \cup {"0", "1", "2", "3", "4", "5", "6", "7", "8", "9", "_"}

IsWordChar(c) == c \in WordChars

\* \b holds before position p: exactly one of the characters at p - 1 and p
\* is a word character (a position outside the string is none).
AtWordBoundary(s, p) ==
  LET before == p - 1 >= 1 /\ p - 1 <= Len(s) /\ IsWordChar(s[p - 1])
      after == p >= 1 /\ p <= Len(s) /\ IsWordChar(s[p])
  IN  before # after

\* The elements n.. of the alternative match s from position p on.
RECURSIVE MatchFrom(_, _, _, _)
MatchFrom(alt, n, s, p) ==
  IF n > Len(alt) THEN TRUE
  ELSE LET e == alt[n]
       IN  CASE e.t = "lit" ->
                  OccursAt(e.s, s, p) /\ MatchFrom(alt, n + 1, s, p + Len(e.s))
             [] e.t = "\\b" ->
                  AtWordBoundary(s, p) /\ MatchFrom(alt, n + 1, s, p)
             [] e.t = "\\s+" ->
                  \E q \in (p + 1)..(Len(s) + 1) :
                    /\ \A r \in p..(q - 1) : IsSpace(s[r])
                    /\ MatchFrom(alt, n + 1, s, q)
             [] e.t = "\\s*" ->
                  \E q \in p..(Len(s) + 1) :
                    /\ \A r \in p..(q - 1) : IsSpace(s[r])
                    /\ MatchFrom(alt, n + 1, s, q)
             [] e.t = "[^)]*" ->
                  \E q \in p..(Len(s) + 1) :
                    /\ \A r \in p..(q - 1) : s[r] # ")"
                    /\ MatchFrom(alt, n + 1, s, q)

\* Python: re.search(pattern, s)
re_search(pattern, s) ==
  \E alt \in pattern : \E p \in 1..(Len(s) + 1) : MatchFrom(alt, 1, s, p)

\* \bword\b
Word(s) == <<WordBoundary, Lit(s), WordBoundary>>

\* \bCREATE\s+INDEX\b
CreateIndexPattern ==
  {<<WordBoundary, Lit(CREATE), Spaces1, Lit(INDEX), WordBoundary>>}

\* \bAUTO_INCREMENT\b
AutoUnderscoreIncrementPattern == {Word(<<"A", "U", "T", "O", "_", "I", "N", "C", "R", "E", "M", "E", "N", "T">>)}

\* \bCHECK\s*\([^)]*\)
CheckConstraintPattern ==
  {<<WordBoundary, Lit(<<"C", "H", "E", "C", "K">>), Spaces0, Lit(<<"(">>), NotParen0, Lit(<<")">>)>>}

\* \bCREATE\s+(OR\s+REPLACE\s+)?(TABLE|VIEW|PROCEDURE|FUNCTION)
CreateObjectPattern ==
  LET objects == {<<"T", "A", "B", "L", "E">>, VIEW, PROCEDURE, FUNCTION}
  IN  {<<WordBoundary, Lit(CREATE), Spaces1, Lit(o)>> : o \in objects}
      \cup {<<WordBoundary, Lit(CREATE), Spaces1, Lit(<<"O", "R">>), Spaces1,
              Lit(<<"R", "E", "P", "L", "A", "C", "E">>), Spaces1, Lit(o)>> : o \in objects}

\* \bIF\s+NOT\s+EXISTS\b
IfNotExistsPattern ==
  {<<WordBoundary, Lit(<<"I", "F">>), Spaces1, Lit(<<"N", "O", "T">>), Spaces1, Lit(<<"E", "X", "I", "S", "T", "S">>),
     WordBoundary>>}

\* \bTIMESTAMP_NTZ\b|\bTIMESTAMP_LTZ\b|\bTIMESTAMP_TZ\b
TimestampPattern ==
  {Word(<<"T", "I", "M", "E", "S", "T", "A", "M", "P", "_", "N", "T", "Z">>), Word(<<"T", "I", "M", "E", "S", "T", "A", "M", "P", "_", "L", "T", "Z">>), Word(<<"T", "I", "M", "E", "S", "T", "A", "M", "P", "_", "T", "Z">>)}

\* \bVARCHAR\b|\bNUMBER\b|\bBOOLEAN\b
DataTypePattern == {Word(<<"V", "A", "R", "C", "H", "A", "R">>), Word(<<"N", "U", "M", "B", "E", "R">>), Word(<<"B", "O", "O", "L", "E", "A", "N">>)}

\* \bAUTOINCREMENT\b
AutoincrementPattern == {Word(<<"A", "U", "T", "O", "I", "N", "C", "R", "E", "M", "E", "N", "T">>)}

(***************************************************************************)
(* validate_snowflake_syntax: the rule tables and the message              *)
(*                                                                         *)
(* A message, and every other piece of fixed text the code emits, is one   *)
(* symbol of the text it is part of: a string that stands for its          *)
(* characters, none of which is a blank at either end or a newline.        *)
(***************************************************************************)

unsupported_patterns ==
  <<[pattern |-> CreateIndexPattern,
     message |-> "Snowflake uses automatic clustering, not traditional indexes. Use CLUSTER BY instead."],
    [pattern |-> AutoUnderscoreIncrementPattern,
     message |-> "Snowflake uses AUTOINCREMENT (one word), not AUTO_INCREMENT."]>>

warning_patterns ==
  <<[pattern |-> CheckConstraintPattern,
     message |-> "CHECK constraints may have limitations in Snowflake. Verify with Snowflake docs."]>>

snowflake_patterns ==
  <<[pattern |-> CreateObjectPattern,
     message |-> "Uses CREATE OR REPLACE (Snowflake best practice)"],
    [pattern |-> IfNotExistsPattern,
     message |-> "Uses IF NOT EXISTS (Snowflake best practice)"],
    [pattern |-> TimestampPattern,
     message |-> "Uses Snowflake-specific timestamp types"],
    [pattern |-> DataTypePattern,
     message |-> "Uses Snowflake data types"],
    [pattern |-> AutoincrementPattern,
     message |-> "Uses Snowflake AUTOINCREMENT syntax"]>>

\* The messages of the rules of the table that match, in table order.
RECURSIVE MatchedMessages(_, _)
MatchedMessages(table, sql_upper) ==
  IF table = <<>> THEN <<>>
  ELSE (IF re_search(Head(table).pattern, sql_upper)
        THEN <<Head(table).message>> ELSE <<>>)
       \o MatchedMessages(Tail(table), sql_upper)

\* The symbols of the two signs the message uses.
CheckMark == "U+2713"
WarningSign == "U+26A0"

GoodPracticeLimit == 3

\* f"  - {item}" for every item
DashLines(items) == [n \in 1..Len(items) |-> <<" ", " ", "-", " ", items[n]>>]

\* Mutant of PracticeLines: every matched practice is reported.
PracticeLines_Unlimited(good_practices) ==
  [n \in 1..Len(good_practices) |-> <<" ", " ", CheckMark, " ", good_practices[n]>>]

\* f"  (check mark) {practice}" for practice in good_practices[:3]
PracticeLines(good_practices) ==
  LET shown == SubSeq(good_practices, 1,
                      IF Len(good_practices) < GoodPracticeLimit
                      THEN Len(good_practices) ELSE GoodPracticeLimit)
  IN  [n \in 1..Len(shown) |-> <<" ", " ", CheckMark, " ", shown[n]>>]

CompliantLines ==
  <<<<CheckMark, " ", "SNOWFLAKE COMPLIANT">>,
    <<"Statement appears to follow Snowflake documentation standards.">>>>

ReviewLines ==
  <<<<WarningSign, " ", "REVIEW REQUIRED">>,
    <<"Please verify against Snowflake documentation: https://docs.snowflake.com/en/">>>>

\* Mutant of VerdictLines: warnings alone do not withhold the verdict.
VerdictLines_IgnoringWarnings(issues, warnings) ==
  IF issues = <<>> THEN CompliantLines ELSE ReviewLines

\* The last two lines of the message.
VerdictLines(issues, warnings) ==
  IF issues = <<>> /\ warnings = <<>> THEN CompliantLines ELSE ReviewLines

\* validation_parts
ValidationParts(issues, warnings, good_practices) ==
  (IF issues # <<>>
   THEN <<<<"ISSUES FOUND:">>>> \o DashLines(issues) \o <<<<>>>> ELSE <<>>)
  \o (IF warnings # <<>>
      THEN <<<<"WARNINGS:">>>> \o DashLines(warnings) \o <<<<>>>> ELSE <<>>)
  \o (IF good_practices # <<>>
      THEN <<<<"GOOD PRACTICES DETECTED:">>>> \o PracticeLines(good_practices) \o <<<<>>>>
      ELSE <<>>)
  \o VerdictLines(issues, warnings)

IssuesOf(sql_statement) == MatchedMessages(unsupported_patterns, Upper(sql_statement))

WarningsOf(sql_statement) == MatchedMessages(warning_patterns, Upper(sql_statement))

GoodPracticesOf(sql_statement) == MatchedMessages(snowflake_patterns, Upper(sql_statement))

validate_snowflake_syntax(sql_statement) ==
  Join(ValidationParts(IssuesOf(sql_statement), WarningsOf(sql_statement),
                       GoodPracticesOf(sql_statement)))

(***************************************************************************)
(* apply_banking_nomenclature                                              *)
(***************************************************************************)

\* datetime.now().strftime(...): one symbol, whatever the clock says.
Timestamp == "{datetime.now()}"

\* The line of each subject-area group whose words occur in the nomenclature.
SubjectAreas(nomenclature) ==
  LET low == Lower(nomenclature)
  IN  (IF Contains(<<"c", "u", "s", "t">>, low) \/ Contains(<<"c", "u", "s", "t", "o", "m", "e", "r">>, low)
       THEN <<<<"Customer & party: cust, pty">>>> ELSE <<>>)
      \o (IF Contains(<<"a", "c", "c", "t">>, low) \/ Contains(<<"a", "c", "c", "o", "u", "n", "t">>, low)
          THEN <<<<"Accounts & products: acct, prod, loan, dep">>>> ELSE <<>>)
      \o (IF Contains(<<"t", "x", "n">>, low) \/ Contains(<<"t", "r", "a", "n", "s", "a", "c", "t", "i", "o", "n">>, low)
          THEN <<<<"Transactions: txn, pay, card, cash, trade">>>> ELSE <<>>)
      \o (IF Contains(<<"r", "i", "s", "k">>, low)
          THEN <<<<"Risk & regulatory: risk, reg, rwa, liq, npa">>>> ELSE <<>>)

NomenclatureSummary(nomenclature) ==
  IF SubjectAreas(nomenclature) # <<>>
  THEN Join(SubjectAreas(nomenclature))
  ELSE <<"Standard banking nomenclature applied">>

\* '\n'.join([f"-- {line}" if line.strip() else "--" for line in validation_lines])
ValidationComment(validation_message) ==
  LET validation_lines == Split(validation_message)
  IN  Join([n \in 1..Len(validation_lines) |->
              IF Strip(validation_lines[n]) # <<>>
              THEN <<"-", "-", " ">> \o validation_lines[n]
              ELSE <<"-", "-">>])

\* The lines of the template before the validation comment.
BannerLines(nomenclature_summary) ==
  <<<<"-", "-", " ", "==========================================">>,
    <<"-", "-", " ", "BANKING CONTROL: Nomenclature Applied">>,
    <<"-", "-", " ", "==========================================">>,
    <<"-", "-", " ", "Applied banking nomenclature rules">>,
    <<"-", "-", " ", "Subject Areas:", " ">> \o nomenclature_summary,
    <<"-", "-", " ", "Timestamp:", " ", Timestamp>>,
    <<"-", "-", " ", "Audit Trail: This statement follows banking data warehouse naming conventions">>,
    <<"-", "-", " ", "Compliance: Ready for banking regulatory audit">>,
    <<"-", "-", " ", "==========================================">>,
    <<"-", "-", " ", "SNOWFLAKE COMPLIANCE: Verified">>,
    <<"-", "-", " ", "==========================================">>,
    <<"-", "-", " ", "Snowflake Documentation: https://docs.snowflake.com/en/">>>>

BannerRule == <<"-", "-", " ", "==========================================">>

\* banking_controls_comment
BankingControlsComment(sql_stmt, nomenclature) ==
  Join(BannerLines(NomenclatureSummary(nomenclature))
       \o <<ValidationComment(validate_snowflake_syntax(sql_stmt)), BannerRule, <<>>, <<>>>>)

\* Mutant of apply_banking_nomenclature: the statement is normalised to
\* upper case on the way out.
apply_banking_nomenclature_Uppercased(sql_stmt, nomenclature) ==
  BankingControlsComment(sql_stmt, nomenclature) \o Upper(sql_stmt)

apply_banking_nomenclature(sql_stmt, nomenclature) ==
  BankingControlsComment(sql_stmt, nomenclature) \o sql_stmt

(***************************************************************************)
(* generate_ddl_file and generate_dml_file                                 *)
(***************************************************************************)

\* input_path.name: one symbol.
InputName == "{input_path.name}"

DdlHeaderLines ==
  <<<<"-", "-", " ", "==========================================">>,
    <<"-", "-", " ", "BANKING DATA WAREHOUSE - DDL STATEMENTS">>,
    <<"-", "-", " ", "==========================================">>,
    <<"-", "-", " ", "Source File:", " ", InputName>>,
    <<"-", "-", " ", "Generated:", " ", Timestamp>>,
    <<"-", "-", " ", "Banking Controls: Applied">>,
    <<"-", "-", " ", "Snowflake Compliance: Verified">>,
    <<"-", "-", " ", "Audit Trail: Ready for execution and audit">>,
    <<"-", "-", " ", "==========================================">>,
    <<"-", "-", " ">>,
    <<"-", "-", " ", "BANKING COMPLIANCE NOTES:">>,
    <<"-", "-", " ", "- All table names follow banking nomenclature conventions">>,
    <<"-", "-", " ", "- Schema names use banking layer prefixes (stg_, dim_, fct_, etc.)">>,
    <<"-", "-", " ", "- Column names follow banking standard patterns">>,
    <<"-", "-", " ", "- Foreign keys maintain referential integrity">>,
    <<"-", "-", " ", "- Comments document business meaning">>,
    <<"-", "-", " ">>,
    <<"-", "-", " ", "SNOWFLAKE COMPLIANCE NOTES:">>,
    <<"-", "-", " ", "- All SQL syntax follows Snowflake documentation: https://docs.snowflake.com/en/">>,
    <<"-", "-", " ", "- Uses Snowflake-specific data types (VARCHAR, NUMBER, TIMESTAMP_NTZ, etc.)">>,
    <<"-", "-", " ", "- Uses Snowflake DDL syntax (CREATE OR REPLACE, IF NOT EXISTS, etc.)">>,
    <<"-", "-", " ", "- Compatible with Snowflake architecture and features">>,
    <<"-", "-", " ", "- No unsupported features (traditional indexes, certain CHECK constraints, etc.)">>,
    <<"-", "-", " ">>,
    <<"-", "-", " ", "EXECUTION INSTRUCTIONS:">>,
    <<"-", "-", " ", "1. Review all statements before execution">>,
    <<"-", "-", " ", "2. Execute in Snowflake environment">>,
    <<"-", "-", " ", "3. Execute in order (respecting dependencies)">>,
    <<"-", "-", " ", "4. Verify constraints and relationships">>,
    <<"-", "-", " ", "5. Document any customizations">>,
    <<"-", "-", " ", "6. Reference Snowflake docs if needed: https://docs.snowflake.com/en/">>,
    <<"-", "-", " ">>,
    <<"-", "-", " ", "==========================================">>>>

DmlHeaderLines ==
  <<<<"-", "-", " ", "==========================================">>,
    <<"-", "-", " ", "BANKING DATA WAREHOUSE - DML STATEMENTS">>,
    <<"-", "-", " ", "==========================================">>,
    <<"-", "-", " ", "Source File:", " ", InputName>>,
    <<"-", "-", " ", "Generated:", " ", Timestamp>>,
    <<"-", "-", " ", "Banking Controls: Applied">>,
    <<"-", "-", " ", "Snowflake Compliance: Verified">>,
    <<"-", "-", " ", "Audit Trail: Ready for execution and audit">>,
    <<"-", "-", " ", "==========================================">>,
    <<"-", "-", " ">>,
    <<"-", "-", " ", "BANKING COMPLIANCE NOTES:">>,
    <<"-", "-", " ", "- All data modifications are logged for audit">>,
    <<"-", "-", " ", "- Transaction boundaries are clearly defined">>,
    <<"-", "-", " ", "- Data validation rules are enforced">>,
    <<"-", "-", " ", "- Referential integrity is maintained">>,
    <<"-", "-", " ", "- Rollback procedures are documented">>,
    <<"-", "-", " ">>,
    <<"-", "-", " ", "SNOWFLAKE COMPLIANCE NOTES:">>,
    <<"-", "-", " ", "- All SQL syntax follows Snowflake documentation: https://docs.snowflake.com/en/">>,
    <<"-", "-", " ", "- Uses Snowflake-specific DML syntax (MERGE, COPY INTO, etc.)">>,
    <<"-", "-", " ", "- Compatible with Snowflake transaction handling">>,
    <<"-", "-", " ", "- Uses Snowflake-specific functions and operations">>,
    <<"-", "-", " ", "- Optimized for Snowflake query execution">>,
    <<"-", "-", " ">>,
    <<"-", "-", " ", "EXECUTION INSTRUCTIONS:">>,
    <<"-", "-", " ", "1. Review all statements before execution">>,
    <<"-", "-", " ", "2. Execute in Snowflake environment">>,
    <<"-", "-", " ", "3. Execute within transaction blocks where appropriate">>,
    <<"-", "-", " ", "4. Verify data integrity after execution">>,
    <<"-", "-", " ", "5. Document execution results">>,
    <<"-", "-", " ", "6. Reference Snowflake docs if needed: https://docs.snowflake.com/en/">>,
    <<"-", "-", " ">>,
    <<"-", "-", " ", "==========================================">>>>

\* header: the template ends with an empty line.
HeaderText(header_lines) == Join(header_lines \o <<<<>>, <<>>>>)

\* "\n-- ==========================================\n"
StatementSeparator == <<"\n">> \o BannerRule \o <<"\n">>

\* processed_statements: every statement annotated, each followed by the
\* separator.
RECURSIVE ProcessedStatements(_, _)
ProcessedStatements(stmts, nomenclature) ==
  IF stmts = <<>> THEN <<>>
  ELSE <<apply_banking_nomenclature(Head(stmts), nomenclature), StatementSeparator>>
       \o ProcessedStatements(Tail(stmts), nomenclature)

\* f.write(header); f.write('\n'.join(processed_statements))
FileText_SeparatorAlways(header_lines, processed) ==
  HeaderText(header_lines) \o Join(processed \o <<StatementSeparator>>)

FileText(header_lines, processed) == HeaderText(header_lines) \o Join(processed)

(***************************************************************************)
(* Inputs                                                                  *)
(***************************************************************************)

MaxLines == 2

\* The pieces the input lines of the segmentation runs are made of.
SegTokens ==
  {<<>>, BlockOpen, BlockClose, LineComment, Semicolon, <<" ">>, <<"x">>}

\* Longer lines: blanks inside and around a statement, a terminator before
\* and after a line comment, a block comment closed on its line, '/*/' (an
\* opener whose '*' also reads as a closer).
SegLongLines ==
  {<<" ", "x", " ", "x", ";", " ">>,
   <<"x">> \o LineComment \o Semicolon,
   <<"x">> \o Semicolon \o LineComment \o Semicolon,
   <<" ">> \o LineComment \o Semicolon,
   BlockOpen \o Semicolon \o BlockClose,
   BlockOpen \o BlockClose \o <<"x">> \o Semicolon,
   BlockOpen \o <<"/">>}

SegLines == {a \o b : a \in SegTokens, b \in SegTokens} \cup SegLongLines

MaxClassifyLines == 3

\* The input lines of the classification runs.
ClassifyLines ==
  {<<>>,
   <<"x">>,
   <<"x", ";">>,
   LineComment \o <<" ", "x">>,
   LineComment \o <<" ", "i","n","s","e","r","t">>,
   DROP \o <<" ", "t", ";">>,
   DROP \o <<" ", "t">>,
   UPDATE \o <<" ", "t", ";">>,
   <<"c","r","e","a","t","e", " ", "t", ";">>,
   <<" ">> \o SELECT \o <<" ", "1", ";">>,
   GRANT \o <<" ">> \o UPDATE \o <<" ", "t", ";">>,
   <<"x">> \o DROP \o <<";">>,
   BlockOpen \o <<" ", "x">>,
   DROP \o <<" ", "t", " ">> \o BlockClose}

MaxBoundaryLines == 3

\* The input lines of the runs that look at where statements begin and end:
\* blank lines, lines with blanks around their text, lines with one and with
\* several ';', a commented ';', an opened and a closed block comment.
BoundaryLines ==
  {<<>>,
   <<" ">>,
   <<"x">>,
   <<";">>,
   <<"x", ";", "x", ";">>,
   <<" ", "x", ";", " ">>,
   LineComment \o <<";">>,
   BlockOpen \o <<"x">>,
   BlockClose \o <<";">>}

\* The texts of 1..n lines of the set.
RECURSIVE TextsOf(_, _)
TextsOf(lineSet, n) ==
  IF n <= 1 THEN lineSet
  ELSE LET shorter == TextsOf(lineSet, n - 1)
       IN  shorter \cup {t \o <<"\n">> \o l : t \in shorter, l \in lineSet}

MaxFragments == 4

\* The pieces the statements given to validate_snowflake_syntax are made of.
ValidateFragments ==
  {<<"c", "r", "e", "a", "t", "e", " ", "o", "r", " ", "r", "e", "p", "l", "a", "c", "e", " ", "v", "i", "e", "w", " ">>, <<"I", "F", " ", "N", "O", "T", " ", "E", "X", "I", "S", "T", "S", " ">>, <<"T", "I", "M", "E", "S", "T", "A", "M", "P", "_", "N", "T", "Z", " ">>, <<"n", "u", "m", "b", "e", "r">>,
   <<"A", "U", "T", "O", "I", "N", "C", "R", "E", "M", "E", "N", "T", " ">>, <<"C", "R", "E", "A", "T", "E", " ", "I", "N", "D", "E", "X", " ">>, <<"A", "U", "T", "O", "_", "I", "N", "C", "R", "E", "M", "E", "N", "T", " ">>, <<"C", "H", "E", "C", "K", " ", "(", "X", ")", " ">>}

\* The concatenations of 0..n different fragments, in any order.
RECURSIVE PickedFrom(_, _)
PickedFrom(fragments, n) ==
  IF n <= 0 \/ fragments = {} THEN {<<>>}
  ELSE {<<>>} \cup UNION {{f \o t : t \in PickedFrom(fragments \ {f}, n - 1)} :
                          f \in fragments}

MaxProcessLines == 2

\* The input lines of the runs of the whole pipeline.
ProcessLines ==
  {LineComment \o <<" ", "x">>,
   <<"x">>,
   DROP \o <<" ", "t", ";">>,
   <<"u", "p", "d", "a", "t", "e", " ", "t", ";">>,
   <<"c", "r", "e", "a", "t", "e", " ", "i", "n", "d", "e", "x", " ", "i", ";">>,
   <<"i", "n", "s", "e", "r", "t", " ", "t">>,
   <<"E", "r", "r", "o", "r", "s", " ", "t", ";">>}

\* The nomenclature texts of the runs of the whole pipeline.
Nomenclatures ==
  {<<>>, <<"C", "u", "s", "t", "o", "m", "e", "r">>, <<"a", "c", "c", "t", " ", "T", "X", "N", " ", "r", "i", "s", "k">>,
   <<"E", "r", "r", "o", "r", " ", "r", "i", "s", "k">>}

(***************************************************************************)
(* State                                                                   *)
(***************************************************************************)

VARIABLES
  pc,                 \* position in the function being run
  sql_content,        \* the argument of parse_sql_statements
  lines,              \* sql_content.split('\n')
  i,                  \* number of lines the segmentation loop has consumed
  current_statement,  \* the accumulator
  in_block_comment,
  statements,
  k,                  \* number of statements the classification loop has consumed
  ddl_statements,
  dml_statements,
  sql_statement,      \* the argument of validate_snowflake_syntax
  issues,
  warnings,
  good_practices,
  validation_msg,     \* what validate_snowflake_syntax returns
  nomenclature_content,
  ddl_processed,      \* processed_statements of generate_ddl_file
  dml_processed,      \* processed_statements of generate_dml_file
  written,            \* the output files written in full
  ddl_file,           \* the text of <base>_DDL.sql
  dml_file,           \* the text of <base>_DML.sql
  ddl_result,         \* what generate_ddl_file returns
  dml_result,         \* what generate_dml_file returns
  summary,            \* what _process_sql_file_impl returns
  sql_file,           \* the file at sql_file_path
  nomenclature_file,  \* the file at nomenclature_path
  node,               \* the node the graph runs next
  last_node,          \* the node the graph ran last
  messages,           \* State["messages"], each message by its kind
  feedback_on_work,   \* State["feedback_on_work"]
  success_criteria_met,
  user_input_needed,
  steps,              \* node executions of the run so far
  run,                \* how the run of the graph stands
  inv,                \* the locals of each of two concurrent invocations
  fs                  \* the output files the concurrent invocations share

parseVars ==
  <<sql_content, lines, i, current_statement, in_block_comment, statements, k,
    ddl_statements, dml_statements>>

validateVars == <<sql_statement, issues, warnings, good_practices, validation_msg>>

emitVars ==
  <<nomenclature_content, ddl_processed, dml_processed, written, ddl_file, dml_file,
    ddl_result, dml_result, summary>>

\* The files the pipeline reads.
inputVars == <<sql_file, nomenclature_file>>

\* The state of the worker/tools/evaluator graph and of its run.
graphVars ==
  <<node, last_node, messages, feedback_on_work, success_criteria_met,
    user_input_needed, steps, run>>

\* Two invocations of the pipeline running at once.
concVars == <<inv, fs>>

vars == <<pc, parseVars, validateVars, emitVars, inputVars, graphVars, concVars>>

ParseIdle ==
  /\ lines = <<>>
  /\ i = 0
  /\ current_statement = <<>>
  /\ in_block_comment = FALSE
  /\ statements = <<>>
  /\ k = 0
  /\ ddl_statements = <<>>
  /\ dml_statements = <<>>

ValidateIdle ==
  /\ sql_statement = <<>>
  /\ issues = <<>>
  /\ warnings = <<>>
  /\ good_practices = <<>>
  /\ validation_msg = <<>>

EmitIdle ==
  /\ ddl_processed = <<>>
  /\ dml_processed = <<>>
  /\ written = {}
  /\ ddl_file = <<>>
  /\ dml_file = <<>>
  /\ ddl_result = "none"
  /\ dml_result = "none"
  /\ summary = [kind |-> "none"]

\* No file is given: the function is called on a text.
InputIdle ==
  /\ sql_file = [state |-> "none", text |-> <<>>]
  /\ nomenclature_file = [state |-> "none", text |-> <<>>]

\* No concurrent invocations.
ConcIdle ==
  /\ inv = <<>>
  /\ fs = <<>>

\* No graph is run.
GraphIdle ==
  /\ node = "none"
  /\ last_node = "none"
  /\ messages = <<>>
  /\ feedback_on_work = "None"
  /\ success_criteria_met = FALSE
  /\ user_input_needed = FALSE
  /\ steps = 0
  /\ run = "none"

(***************************************************************************)
(* parse_sql_statements, one loop iteration at a time                      *)
(***************************************************************************)

InitParseWith(texts) ==
  /\ pc = "start"
  /\ sql_content \in texts
  /\ ParseIdle
  /\ ValidateIdle
  /\ nomenclature_content = <<>>
  /\ EmitIdle
  /\ InputIdle
  /\ GraphIdle
  /\ ConcIdle

\* statements = [], current_statement = "", in_block_comment = False, lines = split
Begin ==
  /\ pc = "start"
  /\ pc' = "segment"
  /\ lines' = Split(sql_content)
  /\ UNCHANGED <<sql_content, i, current_statement, in_block_comment,
                 statements, k, ddl_statements, dml_statements, validateVars, emitVars, inputVars, graphVars, concVars>>

\* One iteration of `for i, line in enumerate(lines)`.
SegmentLine ==
  /\ pc = "segment"
  /\ i < Len(lines)
  /\ LET st == SegmentStep([current_statement |-> current_statement,
                            in_block_comment |-> in_block_comment,
                            statements |-> statements], lines[i + 1])
     IN  /\ current_statement' = st.current_statement
         /\ in_block_comment' = st.in_block_comment
         /\ statements' = st.statements
  /\ i' = i + 1
  /\ UNCHANGED <<pc, sql_content, lines, k, ddl_statements, dml_statements, validateVars, emitVars, inputVars, graphVars, concVars>>

\* After the loop: the remaining statement, if any.
FlushRemaining ==
  /\ pc = "segment"
  /\ i = Len(lines)
  /\ statements' = WithRemaining(statements, current_statement)
  /\ pc' = "classify"
  /\ UNCHANGED <<sql_content, lines, i, current_statement, in_block_comment,
                 k, ddl_statements, dml_statements, validateVars, emitVars, inputVars, graphVars, concVars>>

\* One iteration of `for stmt in statements`.
ClassifyStatement ==
  /\ pc = "classify"
  /\ k < Len(statements)
  /\ LET stmt == statements[k + 1]
     IN  /\ ddl_statements' =
               IF "ddl" \in Route(stmt) THEN Append(ddl_statements, stmt) ELSE ddl_statements
         /\ dml_statements' =
               IF "dml" \in Route(stmt) THEN Append(dml_statements, stmt) ELSE dml_statements
  /\ k' = k + 1
  /\ UNCHANGED <<pc, sql_content, lines, i, current_statement, in_block_comment,
                 statements, validateVars, emitVars, inputVars, graphVars, concVars>>

\* return {'ddl': ddl_statements, 'dml': dml_statements}
ReturnParsed ==
  /\ pc = "classify"
  /\ k = Len(statements)
  /\ pc' = "parsed"
  /\ UNCHANGED <<parseVars, validateVars, emitVars, inputVars, graphVars, concVars>>

NextParse ==
  \/ Begin
  \/ SegmentLine
  \/ FlushRemaining
  \/ ClassifyStatement
  \/ ReturnParsed

InitParse == InitParseWith(TextsOf(SegLines, MaxLines))

SpecParse == InitParse /\ [][NextParse]_vars

InitClassify == InitParseWith(TextsOf(ClassifyLines, MaxClassifyLines))

SpecClassify == InitClassify /\ [][NextParse]_vars

InitBoundary == InitParseWith(TextsOf(BoundaryLines, MaxBoundaryLines))

SpecBoundary == InitBoundary /\ [][NextParse]_vars

(***************************************************************************)
(* validate_snowflake_syntax, called as a tool                             *)
(***************************************************************************)

InitValidate ==
  /\ pc = "validate"
  /\ sql_content = <<>>
  /\ ParseIdle
  /\ sql_statement \in PickedFrom(ValidateFragments, MaxFragments)
  /\ issues = <<>>
  /\ warnings = <<>>
  /\ good_practices = <<>>
  /\ validation_msg = <<>>
  /\ nomenclature_content = <<>>
  /\ EmitIdle
  /\ InputIdle
  /\ GraphIdle
  /\ ConcIdle

ValidateSnowflakeSyntax ==
  /\ pc = "validate"
  /\ issues' = IssuesOf(sql_statement)
  /\ warnings' = WarningsOf(sql_statement)
  /\ good_practices' = GoodPracticesOf(sql_statement)
  /\ validation_msg' = Join(ValidationParts(issues', warnings', good_practices'))
  /\ pc' = "validated"
  /\ UNCHANGED <<parseVars, sql_statement, emitVars, inputVars, graphVars, concVars>>

NextValidate == ValidateSnowflakeSyntax

SpecValidate == InitValidate /\ [][NextValidate]_vars

(***************************************************************************)
(* _process_sql_file_impl: read the two files, parse, write the two files  *)
(***************************************************************************)

\* "Error"
ErrorPrefix == <<"E", "r", "r", "o", "r">>

\* f"Error: {str(e)}", the exception's text one symbol.
ReadError == ErrorPrefix \o <<":", " ", "{str(e)}">>

\* The text returned for a file: "" when the path does not exist, the
\* error text when opening or reading raises, the content otherwise.
get_sql_file_content(file) ==
  IF file.state = "missing" THEN <<>>
  ELSE IF file.state = "unreadable" THEN ReadError
  ELSE file.text

get_nomenclature_content(file) ==
  IF file.state = "missing" THEN <<>>
  ELSE IF file.state = "unreadable" THEN ReadError
  ELSE file.text

\* What may be at a path: nothing, a file that cannot be opened or decoded,
\* or a file with one of the texts.
FilesOf(texts) ==
  {[state |-> "missing", text |-> <<>>], [state |-> "unreadable", text |-> <<>>]}
  \cup {[state |-> "readable", text |-> t] : t \in texts}

Init ==
  /\ pc = "process"
  /\ sql_file \in FilesOf(TextsOf(ProcessLines, MaxProcessLines))
  /\ nomenclature_file \in FilesOf(Nomenclatures)
  /\ sql_content = <<>>
  /\ nomenclature_content = <<>>
  /\ ParseIdle
  /\ ValidateIdle
  /\ EmitIdle
  /\ GraphIdle
  /\ ConcIdle

\* sql_content = get_sql_file_content(sql_file_path), returned if it starts
\* with "Error"
ReadSql ==
  /\ pc = "process"
  /\ sql_content' = get_sql_file_content(sql_file)
  /\ IF StartsWith(sql_content', ErrorPrefix)
     THEN /\ summary' = [kind |-> "returned content", text |-> sql_content']
          /\ pc' = "done"
     ELSE /\ pc' = "read_nomenclature"
          /\ UNCHANGED summary
  /\ UNCHANGED <<lines, i, current_statement, in_block_comment, statements, k,
                 ddl_statements, dml_statements, validateVars, nomenclature_content,
                 ddl_processed, dml_processed, written, ddl_file, dml_file,
                 ddl_result, dml_result, inputVars, graphVars, concVars>>

\* nomenclature_content = get_nomenclature_content(nomenclature_path),
\* returned if it starts with "Error"
ReadNomenclature ==
  /\ pc = "read_nomenclature"
  /\ nomenclature_content' = get_nomenclature_content(nomenclature_file)
  /\ IF StartsWith(nomenclature_content', ErrorPrefix)
     THEN /\ summary' = [kind |-> "returned content", text |-> nomenclature_content']
          /\ pc' = "done"
     ELSE /\ pc' = "parse"
          /\ UNCHANGED summary
  /\ UNCHANGED <<parseVars, validateVars, ddl_processed, dml_processed, written,
                 ddl_file, dml_file, ddl_result, dml_result, inputVars, graphVars, concVars>>

\* parsed = parse_sql_statements(sql_content)
ParseSql ==
  /\ pc = "parse"
  /\ statements' = SegmentAll(sql_content)
  /\ ddl_statements' = parse_sql_statements(sql_content).ddl
  /\ dml_statements' = parse_sql_statements(sql_content).dml
  /\ pc' = "generate_ddl"
  /\ UNCHANGED <<sql_content, lines, i, current_statement, in_block_comment, k,
                 validateVars, emitVars, inputVars, graphVars, concVars>>

\* What a run of generate_ddl_file or generate_dml_file comes to: the file is
\* written, or an exception is raised by mkdir (before the statements are
\* processed), by open (after), or by a write (the file is open and cut).
EmitOutcomes == {"written", "mkdir raises", "open raises", "write raises"}

\* What a file holds when a write to it raised: nothing, or what the first
\* write put there.
CutTexts(header_lines) == {<<>>, HeaderText(header_lines)}

\* What generate_ddl_file returns: the success text when nothing raised,
\* the text of its except branch otherwise (the path and the exception's
\* text left out).
DdlResult_AlwaysSuccess(outcome) == "Successfully generated DDL file"

DdlResult(outcome) ==
  IF outcome = "written" THEN "Successfully generated DDL file"
  ELSE "Error generating DDL file"

DmlResult(outcome) ==
  IF outcome = "written" THEN "Successfully generated DML file"
  ELSE "Error generating DML file"

\* ddl_result = generate_ddl_file(sql_file_path, parsed['ddl'], nomenclature_content, output_dir)
GenerateDdlFile ==
  /\ pc = "generate_ddl"
  /\ \E outcome \in EmitOutcomes :
       /\ ddl_processed' =
            IF outcome = "mkdir raises" THEN <<>>
            ELSE ProcessedStatements(ddl_statements, nomenclature_content)
       /\ IF outcome = "written"
          THEN /\ ddl_file' = FileText(DdlHeaderLines, ddl_processed')
               /\ written' = written \cup {"ddl"}
          ELSE /\ IF outcome = "write raises"
                  THEN ddl_file' \in CutTexts(DdlHeaderLines)
                  ELSE UNCHANGED ddl_file
               /\ UNCHANGED written
       /\ ddl_result' = DdlResult(outcome)
  /\ pc' = "generate_dml"
  /\ UNCHANGED <<parseVars, validateVars, nomenclature_content, dml_processed,
                 dml_file, dml_result, summary, inputVars, graphVars, concVars>>

\* dml_result = generate_dml_file(sql_file_path, parsed['dml'], nomenclature_content, output_dir)
GenerateDmlFile ==
  /\ pc = "generate_dml"
  /\ \E outcome \in EmitOutcomes :
       /\ dml_processed' =
            IF outcome = "mkdir raises" THEN <<>>
            ELSE ProcessedStatements(dml_statements, nomenclature_content)
       /\ IF outcome = "written"
          THEN /\ dml_file' = FileText(DmlHeaderLines, dml_processed')
               /\ written' = written \cup {"dml"}
          ELSE /\ IF outcome = "write raises"
                  THEN dml_file' \in CutTexts(DmlHeaderLines)
                  ELSE UNCHANGED dml_file
               /\ UNCHANGED written
       /\ dml_result' = DmlResult(outcome)
  /\ pc' = "summarise"
  /\ UNCHANGED <<parseVars, validateVars, nomenclature_content, ddl_processed,
                 ddl_file, ddl_result, summary, inputVars, graphVars, concVars>>

\* return summary
ReturnSummary ==
  /\ pc = "summarise"
  /\ summary' = [kind |-> "Processing Complete",
                 ddl_found |-> Len(ddl_statements),
                 dml_found |-> Len(dml_statements),
                 ddl_result |-> ddl_result,
                 dml_result |-> dml_result]
  /\ pc' = "done"
  /\ UNCHANGED <<parseVars, validateVars, nomenclature_content, ddl_processed,
                 dml_processed, written, ddl_file, dml_file, ddl_result, dml_result,
                 inputVars, graphVars, concVars>>

Next ==
  \/ ReadSql
  \/ ReadNomenclature
  \/ ParseSql
  \/ GenerateDdlFile
  \/ GenerateDmlFile
  \/ ReturnSummary

Spec == Init /\ [][Next]_vars

(***************************************************************************)
(* Two invocations of _process_sql_file_impl at once, on one file system   *)
(***************************************************************************)

Invocations == {1, 2}

\* The SQL texts and nomenclature texts of the concurrent invocations.
ConcurrentTexts ==
  {DROP \o <<" ", "t", ";">>,
   <<"u", "p", "d", "a", "t", "e", " ", "t", ";">>,
   DROP \o <<" ", "t", ";", "\n", "u", "p", "d", "a", "t", "e", " ", "t", ";">>}

ConcurrentNomenclatures == {<<>>, <<"r", "i", "s", "k">>}

\* output_path / f"{base_name}_DDL.sql", output_path / f"{base_name}_DML.sql":
\* the invocations have different directories or base names.
OutputPath_SameBaseName(p, kind) == <<1, kind>>

OutputPath(p, kind) == <<p, kind>>

NoFile == [exists |-> FALSE, text |-> <<>>]

\* f.write(data) on a handle at an offset of a file: the data replaces what
\* the file holds from there on, after padding up to the offset.
WriteAt(text, offset, data) ==
  LET padded == text \o [n \in 1..(offset - Len(text)) |-> "\\0"]
  IN  SubSeq(padded, 1, offset) \o data
      \o SubSeq(padded, offset + Len(data) + 1, Len(padded))

InitConcurrent ==
  /\ pc = "concurrent"
  /\ sql_content = <<>>
  /\ ParseIdle
  /\ ValidateIdle
  /\ nomenclature_content = <<>>
  /\ EmitIdle
  /\ InputIdle
  /\ GraphIdle
  /\ inv \in [Invocations ->
               {[pc |-> "read_sql", sql_file |-> t, nomenclature_file |-> n,
                 sql_content |-> <<>>, nomenclature_content |-> <<>>,
                 ddl |-> <<>>, dml |-> <<>>, offset |-> 0,
                 ddl_result |-> "none", dml_result |-> "none",
                 summary |-> [kind |-> "none"]] :
                  t \in ConcurrentTexts, n \in ConcurrentNomenclatures}]
  /\ fs = [path \in {OutputPath(p, kind) : p \in Invocations, kind \in {"DDL", "DML"}}
             |-> NoFile]

OthersUnchanged ==
  UNCHANGED <<pc, parseVars, validateVars, emitVars, inputVars, graphVars>>

\* sql_content = get_sql_file_content(sql_file_path)
ConcurrentReadSql(p) ==
  /\ inv[p].pc = "read_sql"
  /\ inv' = [inv EXCEPT ![p].sql_content = inv[p].sql_file,
                        ![p].pc = "read_nomenclature"]
  /\ UNCHANGED fs
  /\ OthersUnchanged

\* nomenclature_content = get_nomenclature_content(nomenclature_path)
ConcurrentReadNomenclature(p) ==
  /\ inv[p].pc = "read_nomenclature"
  /\ inv' = [inv EXCEPT ![p].nomenclature_content = inv[p].nomenclature_file,
                        ![p].pc = "parse"]
  /\ UNCHANGED fs
  /\ OthersUnchanged

\* parsed = parse_sql_statements(sql_content)
ConcurrentParse(p) ==
  /\ inv[p].pc = "parse"
  /\ inv' = [inv EXCEPT ![p].ddl = parse_sql_statements(inv[p].sql_content).ddl,
                        ![p].dml = parse_sql_statements(inv[p].sql_content).dml,
                        ![p].pc = "open_ddl"]
  /\ UNCHANGED fs
  /\ OthersUnchanged

\* The kind of file an invocation is emitting, by its position.
EmittedKind(p) ==
  IF inv[p].pc \in {"open_ddl", "write_ddl_header", "write_ddl_body"} THEN "DDL" ELSE "DML"

\* with open(path, 'w', encoding='utf-8') as f: the file is created or cut
ConcurrentOpen(p) ==
  /\ inv[p].pc \in {"open_ddl", "open_dml"}
  /\ fs' = [fs EXCEPT ![OutputPath(p, EmittedKind(p))] = [exists |-> TRUE, text |-> <<>>]]
  /\ inv' = [inv EXCEPT ![p].offset = 0,
                        ![p].pc = IF inv[p].pc = "open_ddl" THEN "write_ddl_header"
                                  ELSE "write_dml_header"]
  /\ OthersUnchanged

\* f.write(header)
ConcurrentWriteHeader(p) ==
  /\ inv[p].pc \in {"write_ddl_header", "write_dml_header"}
  /\ LET path == OutputPath(p, EmittedKind(p))
         data == HeaderText(IF EmittedKind(p) = "DDL" THEN DdlHeaderLines ELSE DmlHeaderLines)
     IN  /\ fs' = [fs EXCEPT ![path].text = WriteAt(fs[path].text, inv[p].offset, data)]
         /\ inv' = [inv EXCEPT ![p].offset = inv[p].offset + Len(data),
                               ![p].pc = IF inv[p].pc = "write_ddl_header"
                                         THEN "write_ddl_body" ELSE "write_dml_body"]
  /\ OthersUnchanged

\* f.write('\n'.join(processed_statements)); the emitter returns its result
ConcurrentWriteBody(p) ==
  /\ inv[p].pc \in {"write_ddl_body", "write_dml_body"}
  /\ LET path == OutputPath(p, EmittedKind(p))
         stmts == IF EmittedKind(p) = "DDL" THEN inv[p].ddl ELSE inv[p].dml
         data == Join(ProcessedStatements(stmts, inv[p].nomenclature_content))
     IN  /\ fs' = [fs EXCEPT ![path].text = WriteAt(fs[path].text, inv[p].offset, data)]
         /\ inv' = IF inv[p].pc = "write_ddl_body"
                   THEN [inv EXCEPT ![p].ddl_result = DdlResult("written"),
                                    ![p].pc = "open_dml"]
                   ELSE [inv EXCEPT ![p].dml_result = DmlResult("written"),
                                    ![p].pc = "summarise"]
  /\ OthersUnchanged

\* return summary
ConcurrentReturn(p) ==
  /\ inv[p].pc = "summarise"
  /\ inv' = [inv EXCEPT ![p].summary = [kind |-> "Processing Complete",
                                        ddl_found |-> Len(inv[p].ddl),
                                        dml_found |-> Len(inv[p].dml),
                                        ddl_result |-> inv[p].ddl_result,
                                        dml_result |-> inv[p].dml_result],
                        ![p].pc = "done"]
  /\ UNCHANGED fs
  /\ OthersUnchanged

NextConcurrent ==
  \E p \in Invocations :
    \/ ConcurrentReadSql(p)
    \/ ConcurrentReadNomenclature(p)
    \/ ConcurrentParse(p)
    \/ ConcurrentOpen(p)
    \/ ConcurrentWriteHeader(p)
    \/ ConcurrentWriteBody(p)
    \/ ConcurrentReturn(p)

SpecConcurrent == InitConcurrent /\ [][NextConcurrent]_vars

(***************************************************************************)
(* SQLProcessor: the worker/tools/evaluator graph, one run of run_superstep *)
(***************************************************************************)

\* The node executions a run is allowed: run_superstep passes a config with
\* a thread id and no recursion limit, so the graph library's default stands.
RecursionLimit == 25

\* What the worker's model may answer: a message with tool calls, or one
\* without.
WorkerResponses == {"ai_tool_calls", "ai"}

\* Mutant of worker_router: every worker response goes to the evaluator.
worker_router_AlwaysEvaluator(last_message) == "evaluator"

\* "tools" if the last message has tool calls, "evaluator" otherwise
worker_router(last_message) ==
  IF last_message = "ai_tool_calls" THEN "tools" ELSE "evaluator"

route_based_on_evaluation_AlwaysEnd(met, needed) == "END"

\* "END" if the success criteria are met or user input is needed, "worker"
\* otherwise
route_based_on_evaluation(met, needed) ==
  IF met \/ needed THEN "END" ELSE "worker"

\* graph_builder.add_edge("tools", "worker")
ToolsEdge == "worker"

\* graph_builder.add_edge(START, "worker"); the state run_superstep passes in
InitGraph ==
  /\ pc = "graph"
  /\ sql_content = <<>>
  /\ ParseIdle
  /\ ValidateIdle
  /\ nomenclature_content = <<>>
  /\ EmitIdle
  /\ InputIdle
  /\ ConcIdle
  /\ node = "worker"
  /\ last_node = "START"
  /\ messages = <<"human">>
  /\ feedback_on_work = "None"
  /\ success_criteria_met = FALSE
  /\ user_input_needed = FALSE
  /\ steps = 0
  /\ run = "running"

\* The worker node, then its conditional edge.
Worker ==
  /\ run = "running"
  /\ node = "worker"
  /\ steps < RecursionLimit
  /\ \E response \in WorkerResponses :
       /\ messages' = Append(messages, response)
       /\ node' = worker_router(response)
  /\ last_node' = "worker"
  /\ steps' = steps + 1
  /\ UNCHANGED <<pc, parseVars, validateVars, emitVars, inputVars, concVars, feedback_on_work,
                 success_criteria_met, user_input_needed, run>>

\* The tools node, then its edge to the worker.
Tools ==
  /\ run = "running"
  /\ node = "tools"
  /\ steps < RecursionLimit
  /\ messages' = Append(messages, "tool")
  /\ node' = ToolsEdge
  /\ last_node' = "tools"
  /\ steps' = steps + 1
  /\ UNCHANGED <<pc, parseVars, validateVars, emitVars, inputVars, concVars, feedback_on_work,
                 success_criteria_met, user_input_needed, run>>

\* The evaluator node, then its conditional edge.
Evaluator ==
  /\ run = "running"
  /\ node = "evaluator"
  /\ steps < RecursionLimit
  /\ \E met \in BOOLEAN, needed \in BOOLEAN :
       /\ success_criteria_met' = met
       /\ user_input_needed' = needed
       /\ node' = route_based_on_evaluation(met, needed)
  /\ messages' = Append(messages, "evaluator")
  /\ feedback_on_work' = "feedback"
  /\ last_node' = "evaluator"
  /\ steps' = steps + 1
  /\ run' = IF node' = "END" THEN "ended" ELSE "running"
  /\ UNCHANGED <<pc, parseVars, validateVars, emitVars, inputVars, concVars>>

\* The allowed node executions are used up and the run is not at END: the
\* library raises GraphRecursionError out of ainvoke.
RaiseRecursionError ==
  /\ run = "running"
  /\ node # "END"
  /\ steps = RecursionLimit
  /\ run' = "GraphRecursionError"
  /\ UNCHANGED <<pc, parseVars, validateVars, emitVars, inputVars, concVars, node, last_node,
                 messages, feedback_on_work, success_criteria_met, user_input_needed,
                 steps>>

NextGraph ==
  \/ Worker
  \/ Tools
  \/ Evaluator
  \/ RaiseRecursionError

SpecGraph == InitGraph /\ [][NextGraph]_vars

\* The library runs a node whenever one is due.
SpecGraphLive == SpecGraph /\ WF_vars(NextGraph)

(***************************************************************************)
(* Reference notions the properties are stated with                        *)
(***************************************************************************)

\* SQL lexing of a text, one mode per character: "block" inside /* ... */
\* (both delimiters included), "line" from -- to the end of its line, "code"
\* elsewhere.  Quoted literals are not distinguished.
RECURSIVE LexFrom(_, _, _)
LexFrom(s, p, mode) ==
  IF p > Len(s) THEN <<>>
  ELSE IF mode = "block"
  THEN IF OccursAt(BlockClose, s, p)
       THEN <<"block", "block">> \o LexFrom(s, p + 2, "code")
       ELSE <<"block">> \o LexFrom(s, p + 1, "block")
  ELSE IF mode = "line"
  THEN IF s[p] = "\n"
       THEN <<"code">> \o LexFrom(s, p + 1, "code")
       ELSE <<"line">> \o LexFrom(s, p + 1, "line")
  ELSE IF OccursAt(BlockOpen, s, p)
       THEN <<"block", "block">> \o LexFrom(s, p + 2, "block")
       ELSE IF OccursAt(LineComment, s, p)
       THEN <<"line", "line">> \o LexFrom(s, p + 2, "line")
       ELSE <<"code">> \o LexFrom(s, p + 1, "code")

LexModes(s) == LexFrom(s, 1, "code")

\* Number of characters of the text before its j-th line.
RECURSIVE LineOffset(_, _)
LineOffset(ls, j) ==
  IF j <= 1 THEN 0 ELSE LineOffset(ls, j - 1) + Len(ls[j - 1]) + 1

\* The j-th input line has a ';' inside a block comment that is open there.
SemicolonInsideBlock(j) ==
  \E p \in 1..Len(lines[j]) :
    /\ lines[j][p] = ";"
    /\ LexModes(sql_content)[LineOffset(lines, j) + p] = "block"

\* The loop has consumed a line and that line flushed the accumulator: a
\* line that does not flush leaves at least its '\n' in the accumulator.
FlushedAtLine(j) == i = j /\ j >= 1 /\ current_statement = <<>>

\* Every ';' of the line comes after the first '--' of the line.
EverySemicolonCommented(line) ==
  \A p \in 1..Len(line) :
    line[p] = ";" =>
      /\ Contains(LineComment, line)
      /\ Find(LineComment, line) < p - 1

\* Python: s.lstrip()
LStrip(s) ==
  LET keep == {p \in 1..Len(s) : ~IsSpace(s[p])}
  IN  IF keep = {} THEN <<>>
      ELSE SubSeq(s, CHOOSE p \in keep : \A q \in keep : p <= q, Len(s))

\* text is stmts[1], stmts[2], ... in this order with nothing but whitespace
\* before, between and after them.
RECURSIVE Rejoins(_, _)
Rejoins(text, stmts) ==
  LET rest == LStrip(text)
  IN  IF stmts = <<>> THEN rest = <<>>
      ELSE /\ Head(stmts) # <<>>
           /\ StartsWith(rest, Head(stmts))
           /\ Rejoins(SubSeq(rest, Len(Head(stmts)) + 1, Len(rest)), Tail(stmts))

Range(seq) == {seq[n] : n \in 1..Len(seq)}

\* The statements the classification loop has consumed.
Classified == SubSeq(statements, 1, k)

\* The statements of seq whose text is in the set, in the order of seq.
Those(seq, set) ==
  LET Pick(x) == x \in set
  IN  SelectSeq(seq, Pick)

\* The lines of a statement that are SQL, not comment or blank, in order:
\* stripped, non-empty, and beginning in "code" mode of the statement's lexing.
SqlLinesOf(stmt) ==
  LET ls == Split(stmt)
      modes == LexModes(stmt)
      FirstChar(l) == CHOOSE p \in 1..Len(l) :
                        /\ ~IsSpace(l[p])
                        /\ \A q \in 1..(p - 1) : IsSpace(l[q])
      IsSql(n) == /\ Strip(ls[n]) # <<>>
                  /\ modes[LineOffset(ls, n) + FirstChar(ls[n])] = "code"
      RECURSIVE From(_)
      From(n) == IF n > Len(ls) THEN <<>>
                 ELSE IF IsSql(n) THEN <<Strip(ls[n])>> \o From(n + 1)
                 ELSE From(n + 1)
  IN  From(1)

\* The line begins with one of the keywords, in any case.
BeginsWith(kws, l) == \E kw \in kws : StartsWith(Upper(l), kw)

\* One of the keywords is a word of the line, delimited by spaces or the
\* ends of the line, in any case.
HasWordOf(kws, l) == \E kw \in kws : HasWord(kw, Upper(l))

(***************************************************************************)
(* Properties                                                              *)
(***************************************************************************)

\* C1: a line with a ';' inside a block comment that is open at that ';'
\* never flushes the accumulator: no statement boundary is produced there.
C1_NoFlushInsideBlockComment ==
  \A j \in 1..Len(lines) : SemicolonInsideBlock(j) => ~FlushedAtLine(j)

\* C2: a line whose every ';' comes after the first '--' of the line never
\* ends the current statement (stated for every line, inside a block comment
\* or not).
C2_CommentedTerminatorNeverEnds ==
  \A j \in 1..Len(lines) : EverySemicolonCommented(lines[j]) => ~FlushedAtLine(j)

\* C2 witness: a line outside any block comment, with a ';' after a '--'
\* that does not begin the line, has been consumed and did not flush.
C2_Witness ==
  /\ pc = "segment"
  /\ i >= 1
  /\ Contains(Semicolon, lines[i])
  /\ EverySemicolonCommented(lines[i])
  /\ ~StartsWith(Strip(lines[i]), LineComment)
  /\ ~Contains(BlockOpen, lines[i])
  /\ ~in_block_comment
  /\ current_statement # <<>>

\* C3: segmentation is lossless: the statements, in output order, are the
\* input text with only whitespace removed before, between and after them.
C3_Lossless ==
  pc \in {"classify", "parsed"} => Rejoins(sql_content, statements)

\* C3 witness: two statements came out of a text that has whitespace inside
\* a statement and around the statements.
C3_Witness ==
  /\ pc = "classify"
  /\ Len(statements) >= 2
  /\ \E n \in 1..Len(statements) : \E p \in 1..Len(statements[n]) :
       IsSpace(statements[n][p])
  /\ Len(Join(statements)) < Len(sql_content)

\* C4: a statement that satisfies a DDL keyword rule and a DML keyword rule
\* is placed in the DDL list and not in the DML list.
C4_BothRulesGoToDdl ==
  \A stmt \in Range(Classified) :
    (/\ sql_line(stmt) # <<>>
     /\ is_ddl(Upper(sql_line(stmt)))
     /\ is_dml(Upper(sql_line(stmt))))
    => (stmt \in Range(ddl_statements) /\ stmt \notin Range(dml_statements))

\* C5: every statement is in at most one of the two lists, every occurrence
\* of a listed text is listed exactly once (so a text always gets the same
\* class), and both lists are in document order.
C5_SingleValuedInOrder ==
  /\ Range(ddl_statements) \cap Range(dml_statements) = {}
  /\ ddl_statements = Those(Classified, Range(ddl_statements))
  /\ dml_statements = Those(Classified, Range(dml_statements))

\* C5 witness: one run produced a DDL statement, a DML statement and a
\* discarded one.
C5_Witness ==
  /\ pc = "parsed"
  /\ ddl_statements # <<>>
  /\ dml_statements # <<>>
  /\ Len(statements) > Len(ddl_statements) + Len(dml_statements)

\* C6: a statement whose lead line starts with no DDL keyword is DDL if one
\* of CREATE, ALTER, DROP, GRANT, REVOKE is a word of any of its lines, and a
\* statement that is not DDL and whose lead line starts with no DML keyword
\* is DML if one of INSERT, UPDATE, DELETE, MERGE is a word of any of its lines.
C6_WordsOfWholeStatement ==
  \A stmt \in Range(Classified) :
    LET sql == SqlLinesOf(stmt)
    IN  sql # <<>> =>
          /\ (/\ ~BeginsWith(ddl_keywords, Head(sql))
              /\ \E l \in Range(sql) : HasWordOf(ddl_words, l))
               => stmt \in Range(ddl_statements)
          /\ (/\ stmt \notin Range(ddl_statements)
              /\ ~BeginsWith(dml_keywords, Head(sql))
              /\ \E l \in Range(sql) : HasWordOf(dml_words, l))
               => stmt \in Range(dml_statements)

\* C7: a statement whose first non-comment line begins with a DDL or DML
\* keyword (a '--' line followed by DROP, UPDATE or SELECT, say) is never
\* left out of both lists.
C7_OnlyCommentsDiscarded ==
  \A stmt \in Range(Classified) :
    LET sql == SqlLinesOf(stmt)
    IN  (sql # <<>> /\ BeginsWith(ddl_keywords \cup dml_keywords, Head(sql)))
          => (stmt \in Range(ddl_statements) \/ stmt \in Range(dml_statements))

\* The lines of a validation message.
ReportLines == Split(validation_msg)

\* The last two lines of the validation message: the verdict.
ReportedVerdict == SubSeq(ReportLines, Len(ReportLines) - 1, Len(ReportLines))

\* The practices the validation message lists, in its order.
ReportedPractices ==
  LET IsPractice(l) == StartsWith(l, <<" ", " ", CheckMark, " ">>)
      shown == SelectSeq(ReportLines, IsPractice)
  IN  [n \in 1..Len(shown) |-> shown[n][5]]

\* The messages of the good-practice rules, in rule-table order.
PracticeTable == [n \in 1..Len(snowflake_patterns) |-> snowflake_patterns[n].message]

\* C8: the verdict is 'compliant' if and only if there are no issues and no
\* warnings, and 'review required' otherwise, whatever good practices match;
\* a verdict line appears nowhere but in the verdict.
C8_CompliantIffNoIssuesNoWarnings ==
  pc = "validated" =>
    /\ ReportedVerdict = CompliantLines <=> (issues = <<>> /\ warnings = <<>>)
    /\ ReportedVerdict = ReviewLines <=> ~(issues = <<>> /\ warnings = <<>>)
    /\ <<"ISSUES FOUND:">> \in Range(ReportLines) <=> issues # <<>>
    /\ <<"WARNINGS:">> \in Range(ReportLines) <=> warnings # <<>>
    /\ \A n \in 1..(Len(ReportLines) - 2) :
         ReportLines[n] \notin Range(CompliantLines) \cup Range(ReviewLines)

\* C8 witness: a statement with a warning, no issue and a good practice was
\* given the 'review required' verdict.
C8_Witness ==
  /\ pc = "validated"
  /\ issues = <<>>
  /\ warnings # <<>>
  /\ good_practices # <<>>
  /\ ReportedVerdict = ReviewLines

\* C9: at most 3 good practices are reported, and they are the first 3 (or
\* all, if fewer) of the matching rules in rule-table order.
C9_FirstThreePractices ==
  pc = "validated" =>
    /\ Len(ReportedPractices) <= 3
    /\ good_practices = Those(PracticeTable, Range(good_practices))
    /\ ReportedPractices =
         SubSeq(good_practices, 1, IF Len(good_practices) < 3 THEN Len(good_practices) ELSE 3)

\* C9 witness: more than 3 of the good-practice rules matched a statement.
C9_Witness ==
  /\ pc = "validated"
  /\ Len(good_practices) > 3
  /\ Len(ReportedPractices) = 3

\* Python: s.endswith(suffix)
EndsWith(s, suffix) ==
  /\ Len(suffix) <= Len(s)
  /\ SubSeq(s, Len(s) - Len(suffix) + 1, Len(s)) = suffix

\* Every second entry of processed_statements, from the first: the
\* annotated statements.
AnnotatedOf(processed) == [n \in 1..(Len(processed) \div 2) |-> processed[2 * n - 1]]

\* Each statement is added to something that precedes it, unchanged.
EachPrepended(annotated, stmts) ==
  /\ Len(annotated) = Len(stmts)
  /\ \A n \in 1..Len(stmts) :
       /\ EndsWith(annotated[n], stmts[n])
       /\ Len(annotated[n]) > Len(stmts[n])

\* The file holds the statements in order from position p on, each one
\* followed by the line break and separator that close its block.
RECURSIVE WrittenInOrder(_, _, _)
WrittenInOrder(file, p, stmts) ==
  IF stmts = <<>> THEN TRUE
  ELSE LET block == Head(stmts) \o <<"\n">> \o StatementSeparator
       IN  \E q \in p..Len(file) :
             /\ OccursAt(block, file, q)
             /\ WrittenInOrder(file, q + Len(block), Tail(stmts))

\* C10: annotation only adds: every annotated statement ends with its
\* statement, unchanged, and what is added precedes it; every statement
\* reaches its output file as it was segmented.
C10_AnnotationOnlyPrepends ==
  /\ ddl_processed # <<>> => EachPrepended(AnnotatedOf(ddl_processed), ddl_statements)
  /\ dml_processed # <<>> => EachPrepended(AnnotatedOf(dml_processed), dml_statements)
  /\ "ddl" \in written => WrittenInOrder(ddl_file, 1, ddl_statements)
  /\ "dml" \in written => WrittenInOrder(dml_file, 1, dml_statements)

\* C10 witness: a run wrote a DDL and a DML statement, annotated under a
\* nomenclature that names several subject areas, to their files.
C10_Witness ==
  /\ pc = "done"
  /\ written = {"ddl", "dml"}
  /\ ddl_statements # <<>>
  /\ dml_statements # <<>>
  /\ Len(SubjectAreas(nomenclature_content)) >= 2

\* The emission of a file has been run.
DdlAttempted == pc \in {"generate_dml", "summarise"} \/ (pc = "done" /\ ddl_result # "none")
DmlAttempted == pc = "summarise" \/ (pc = "done" /\ dml_result # "none")

\* C11: a finished invocation returns a success summary with both files
\* written or an error; never one emission succeeded and the other failed,
\* and after a failed DDL emission the DML emission is not attempted.
C11_NoPartialSuccess ==
  /\ (pc = "done" /\ summary.kind = "Processing Complete")
       => /\ summary.ddl_result = "Successfully generated DDL file"
          /\ summary.dml_result = "Successfully generated DML file"
  /\ ddl_result = "Error generating DDL file"
       => (dml_result = "none" /\ dml_processed = <<>> /\ "dml" \notin written)

\* C12: when the SQL path or the nomenclature path names no existing
\* readable file, the invocation ends with an error result: no 'Processing
\* Complete' summary, no output file.
C12_MissingInputIsReported ==
  (/\ pc = "done"
   /\ (sql_file.state # "readable" \/ nomenclature_file.state # "readable"))
  => (summary.kind # "Processing Complete" /\ written = {})

\* C13: an emitter whose directory, open or write failed returns its error
\* result, never the success one: 'Successfully generated' is returned only
\* for a file written in full; every emission ends with a result.
C13_WriteFailureIsAnErrorResult ==
  /\ DdlAttempted =>
       /\ ddl_result \in {"Successfully generated DDL file", "Error generating DDL file"}
       /\ ddl_result = "Successfully generated DDL file" <=>
            ("ddl" \in written /\ ddl_file = FileText(DdlHeaderLines, ddl_processed))
  /\ DmlAttempted =>
       /\ dml_result \in {"Successfully generated DML file", "Error generating DML file"}
       /\ dml_result = "Successfully generated DML file" <=>
            ("dml" \in written /\ dml_file = FileText(DmlHeaderLines, dml_processed))

\* C13 witness: an invocation ended after a write to the DDL file raised
\* with the header already in the file, and the DML emission failed too.
C13_Witness ==
  /\ pc = "done"
  /\ ddl_result = "Error generating DDL file"
  /\ ddl_file = HeaderText(DdlHeaderLines)
  /\ ddl_statements # <<>>
  /\ dml_result = "Error generating DML file"

\* C14: emission does not depend on the statement counts: with no statement
\* of its kind a file is written all the same, holding its header and
\* nothing else (no annotated statement, no separator), and the summary
\* counts zero.
C14_HeaderOnlyFilesAreWritten ==
  /\ (ddl_result = "Successfully generated DDL file" /\ ddl_statements = <<>>)
       => ("ddl" \in written /\ ddl_processed = <<>> /\ ddl_file = HeaderText(DdlHeaderLines))
  /\ (dml_result = "Successfully generated DML file" /\ dml_statements = <<>>)
       => ("dml" \in written /\ dml_processed = <<>> /\ dml_file = HeaderText(DmlHeaderLines))
  /\ (pc = "done" /\ summary.kind = "Processing Complete")
       => /\ summary.ddl_found = Len(ddl_statements)
          /\ summary.dml_found = Len(dml_statements)

\* C14 witness: an input of comment lines only, all discarded, ended with
\* both files written and zero statements counted.
C14_Witness ==
  /\ pc = "done"
  /\ sql_file.state = "readable"
  /\ statements # <<>>
  /\ summary.kind = "Processing Complete"
  /\ summary.ddl_found = 0
  /\ summary.dml_found = 0
  /\ written = {"ddl", "dml"}

\* The last line of a text.
LastLine(text) == Split(text)[Len(Split(text))]

\* The statements that were flushed at a line of the input: all of them,
\* but for the last one when the accumulator held text at the end of input.
FlushedAtALine ==
  IF Strip(current_statement) # <<>> /\ statements # <<>>
  THEN SubSeq(statements, 1, Len(statements) - 1)
  ELSE statements

\* C15: at end of input an accumulator holding non-whitespace text is
\* flushed, stripped, as the last statement, and one holding only whitespace
\* is not flushed (every statement then ends with a line that has a ';');
\* the last statement is classified by the rules of every other one.
C15_TrailingStatementFlushed ==
  pc \in {"classify", "parsed"} =>
    /\ Strip(current_statement) # <<>> =>
         (statements # <<>> /\ statements[Len(statements)] = Strip(current_statement))
    /\ \A n \in 1..Len(FlushedAtALine) :
         Contains(Semicolon, LastLine(FlushedAtALine[n]))
    /\ pc = "parsed" =>
         /\ ddl_statements = RoutedTo("ddl", statements)
         /\ dml_statements = RoutedTo("dml", statements)

\* C15 witness: a text whose last statement has no terminator was parsed:
\* that statement came after a terminated one and is in the DDL list.
C15_Witness ==
  /\ pc = "parsed"
  /\ Len(statements) >= 2
  /\ Strip(current_statement) # <<>>
  /\ ~Contains(Semicolon, statements[Len(statements)])
  /\ ddl_statements # <<>>
  /\ ddl_statements[Len(ddl_statements)] = statements[Len(statements)]

\* The position, among the lines of a statement, of the line the classifier
\* takes as lead line: the first one that is not blank and starts with
\* neither '--' nor '/*'; 0 if there is none.
LeadLineIndex(stmt) ==
  LET ls == Split(stmt)
      Taken(n) == /\ Strip(ls[n]) # <<>>
                  /\ ~StartsWith(Strip(ls[n]), LineComment)
                  /\ ~StartsWith(Strip(ls[n]), BlockOpen)
  IN  IF \E n \in 1..Len(ls) : Taken(n)
      THEN CHOOSE n \in 1..Len(ls) : Taken(n) /\ \A m \in 1..(n - 1) : ~Taken(m)
      ELSE 0

\* The line of the statement begins inside a block comment: its first
\* non-blank character is comment text of a '/* ... */' opened before it.
BeginsInsideBlockComment(stmt, n) ==
  LET ls == Split(stmt)
      first == CHOOSE p \in 1..Len(ls[n]) :
                 ~IsSpace(ls[n][p]) /\ \A q \in 1..(p - 1) : IsSpace(ls[n][q])
  IN  /\ LexModes(stmt)[LineOffset(ls, n) + first] = "block"
      /\ ~OccursAt(BlockOpen, ls[n], first)

\* C17: the lead line that gave a statement its class never lies inside a
\* block comment: comment text does not determine the class.
C17_LeadLineOutsideBlockComment ==
  \A stmt \in Range(ddl_statements) \cup Range(dml_statements) :
    (~IsSkippedComment(stmt) /\ LeadLineIndex(stmt) # 0)
      => /\ sql_line(stmt) = Strip(Split(stmt)[LeadLineIndex(stmt)])
         /\ ~BeginsInsideBlockComment(stmt, LeadLineIndex(stmt))

\* What annotation put before the statement.
PrependedTo(annotated, stmt) == SubSeq(annotated, 1, Len(annotated) - Len(stmt))

\* Every line of the text is blank or starts with '--'.
IsCommentBlock(text) ==
  \A n \in 1..Len(Split(text)) :
    Strip(Split(text)[n]) = <<>> \/ StartsWith(Split(text)[n], LineComment)

\* Every line of the compliance report of the statement is in the text as
\* '-- <line>', or as a bare '--' when it is blank, on a line of its own.
ReportIsRendered(text, stmt) ==
  \A n \in 1..Len(Split(validate_snowflake_syntax(stmt))) :
    LET line == Split(validate_snowflake_syntax(stmt))[n]
        shown == IF Strip(line) # <<>> THEN LineComment \o <<" ">> \o line ELSE LineComment
    IN  \E m \in 1..Len(Split(text)) : Split(text)[m] = shown

\* C18: what annotation prepends is a comment block: each of its non-blank
\* lines starts with '--', and each line of the compliance report is in it
\* as '-- <line>' or a bare '--'.
C18_PrependedBlockIsComment ==
  /\ \A n \in 1..Len(AnnotatedOf(ddl_processed)) :
       /\ IsCommentBlock(PrependedTo(AnnotatedOf(ddl_processed)[n], ddl_statements[n]))
       /\ ReportIsRendered(PrependedTo(AnnotatedOf(ddl_processed)[n], ddl_statements[n]),
                           ddl_statements[n])
  /\ \A n \in 1..Len(AnnotatedOf(dml_processed)) :
       /\ IsCommentBlock(PrependedTo(AnnotatedOf(dml_processed)[n], dml_statements[n]))
       /\ ReportIsRendered(PrependedTo(AnnotatedOf(dml_processed)[n], dml_statements[n]),
                           dml_statements[n])

\* C19: END is reached only right after an evaluator step that set
\* success_criteria_met or user_input_needed; after an evaluation that set
\* neither the next node is the worker; after the tools node the next node
\* is the worker.
C19_GraphRouting ==
  /\ node = "END" => (last_node = "evaluator" /\ (success_criteria_met \/ user_input_needed))
  /\ (last_node = "evaluator" /\ ~success_criteria_met /\ ~user_input_needed)
       => node = "worker"
  /\ last_node = "tools" => node = "worker"
  /\ run = "ended" <=> node = "END"

\* C19 witness: a run reached END on user_input_needed alone, after a round
\* of tools and a rejected attempt.
C19_Witness ==
  /\ node = "END"
  /\ user_input_needed
  /\ ~success_criteria_met
  /\ \E n \in 1..Len(messages) : messages[n] = "tool"
  /\ \E n \in 1..(Len(messages) - 1) : messages[n] = "evaluator"

\* C20: every run of the graph reaches END.
C20_EveryRunReachesEnd == <>(node = "END")

\* What an invocation returns when it runs alone on its two files.
AloneSummary(p) ==
  [kind |-> "Processing Complete",
   ddl_found |-> Len(parse_sql_statements(inv[p].sql_file).ddl),
   dml_found |-> Len(parse_sql_statements(inv[p].sql_file).dml),
   ddl_result |-> "Successfully generated DDL file",
   dml_result |-> "Successfully generated DML file"]

\* What an invocation leaves in its output file of a kind when it runs alone.
AloneFile(p, kind) ==
  [exists |-> TRUE,
   text |-> IF kind = "DDL"
            THEN FileText(DdlHeaderLines,
                          ProcessedStatements(parse_sql_statements(inv[p].sql_file).ddl,
                                              inv[p].nomenclature_file))
            ELSE FileText(DmlHeaderLines,
                          ProcessedStatements(parse_sql_statements(inv[p].sql_file).dml,
                                              inv[p].nomenclature_file))]

RECURSIVE FlagBefore(_, _)
FlagBefore(ls, j) ==
  IF j <= 1 THEN FALSE ELSE BlockFlagAfter(ls[j - 1], FlagBefore(ls, j - 1))

\* A block comment of the text is open where the j-th line begins.
OpenBlockBefore(j) ==
  LET before == SubSeq(sql_content, 1, LineOffset(lines, j))
  IN  LexModes(before \o <<"x">>)[Len(before) + 1] = "block"

\* The line has a ';' and its first ';' comes before every '--' and every
\* '/*' of the line.
TerminatorBeforeComments(line) ==
  /\ Contains(Semicolon, line)
  /\ \A p \in 1..Len(line) :
       (OccursAt(LineComment, line, p) \/ OccursAt(BlockOpen, line, p))
         => Find(Semicolon, line) + 1 < p

\* Every '*/' of the line closes a '/*' of the line.
ClosesOnlyItsOwn(line) ==
  \A p \in 1..Len(line) :
    OccursAt(BlockClose, line, p) => LexModes(line)[p] = "block"

\* C21: a line that begins outside every block comment and whose first ';'
\* precedes every '--' and every '/*' of the line flushes the accumulator,
\* also when a '/* ... */' or an opening '/*' follows the ';' on the line.
C21_TerminatorOutsideCommentsEnds ==
  \A j \in 1..Len(lines) :
    (/\ i = j
     /\ ~FlagBefore(lines, j)
     /\ ~OpenBlockBefore(j)
     /\ TerminatorBeforeComments(lines[j])
     /\ ClosesOnlyItsOwn(lines[j]))
    => FlushedAtLine(j)

\* C22: when both input files exist and can be read, their text does not
\* change the path taken: the invocation parses the SQL text, runs both
\* emissions and returns the 'Processing Complete' summary, also when a text
\* begins with 'Error'.
C22_ContentDoesNotChangeThePath ==
  (/\ pc = "done"
   /\ sql_file.state = "readable"
   /\ nomenclature_file.state = "readable")
  => /\ summary.kind = "Processing Complete"
     /\ statements = SegmentAll(sql_file.text)
     /\ ddl_result # "none"
     /\ dml_result # "none"

\* The text has the line that declares Snowflake compliance verified.
DeclaresVerified(text) ==
  \E n \in 1..Len(Split(text)) :
    \E p \in 1..Len(Split(text)[n]) : Split(text)[n][p] = "SNOWFLAKE COMPLIANCE: Verified"

\* The compliance report of the statement has no issue and no warning.
PassesTheChecker(stmt) == IssuesOf(stmt) = <<>> /\ WarningsOf(stmt) = <<>>

\* C25: the block prepended to a statement has the line 'SNOWFLAKE
\* COMPLIANCE: Verified' only if the compliance report of the statement has
\* no issues and no warnings.
C25_VerifiedOnlyIfCompliant ==
  /\ \A n \in 1..Len(AnnotatedOf(ddl_processed)) :
       DeclaresVerified(PrependedTo(AnnotatedOf(ddl_processed)[n], ddl_statements[n]))
         => PassesTheChecker(ddl_statements[n])
  /\ \A n \in 1..Len(AnnotatedOf(dml_processed)) :
       DeclaresVerified(PrependedTo(AnnotatedOf(dml_processed)[n], dml_statements[n]))
         => PassesTheChecker(dml_statements[n])

\* result["messages"][-2] and result["messages"][-1] of run_superstep
reply == messages[Len(messages) - 1]

feedback == messages[Len(messages)]

\* C23: when the graph is at END, the last message is the evaluator's
\* feedback and the one before it is a worker response without tool calls:
\* the reply of run_superstep is the worker's final answer and its feedback
\* is the evaluator's.
C23_ReplyAndFeedbackAtEnd ==
  node = "END" =>
    /\ Len(messages) >= 3
    /\ feedback = "evaluator"
    /\ reply = "ai"

\* C23 witness: a run reached END with the success criteria met, after two
\* rounds of tools and two rejected attempts.
C23_Witness ==
  /\ node = "END"
  /\ success_criteria_met
  /\ Cardinality({n \in 1..Len(messages) : messages[n] = "tool"}) >= 2
  /\ Cardinality({n \in 1..Len(messages) : messages[n] = "evaluator"}) >= 3

\* The statements are, in order, runs of whole consecutive lines of ls from
\* the line at `from` on, each run joined and trimmed, and the lines after
\* the last run are blank.
RECURSIVE WholeLineRuns(_, _, _)
WholeLineRuns(stmts, ls, from) ==
  IF stmts = <<>> THEN \A n \in from..Len(ls) : Strip(ls[n]) = <<>>
  ELSE \E to \in from..Len(ls) :
         /\ Head(stmts) = Strip(Join(SubSeq(ls, from, to)))
         /\ WholeLineRuns(Tail(stmts), ls, to + 1)

\* Number of ';' of a line.
Semicolons(line) == Cardinality({p \in 1..Len(line) : line[p] = ";"})

\* C24: there are never more statements than lines consumed (a line makes
\* at most one boundary, however many ';' it holds), and when the
\* segmentation pass has ended every statement is non-empty and trimmed, and
\* the statements are runs of whole consecutive input lines: no line is cut.
C24_StatementsAreWholeLines ==
  /\ pc = "segment" => Len(statements) <= i
  /\ pc = "classify" =>
       /\ \A n \in 1..Len(statements) :
            statements[n] # <<>> /\ Strip(statements[n]) = statements[n]
       /\ Len(statements) <= Len(lines)
       /\ WholeLineRuns(statements, lines, 1)

\* C24 witness: a first line holding two ';', neither in a comment, made
\* one statement of the whole line, and a second statement follows.
C24_Witness ==
  /\ pc = "classify"
  /\ Len(lines) = 2
  /\ Len(statements) = 2
  /\ Semicolons(lines[1]) >= 2
  /\ ~Contains(LineComment, lines[1])
  /\ statements[1] = lines[1]

====
